---- MODULE Spec2Model ----
(***************************************************************************)
(* The AvidaGP virtual CPU of src/hardware/AvidaGP.h (class emp::AvidaGP): *)
(* a linear genome of instructions run by a scope stack, a call stack and  *)
(* a register-backup stack.                                                *)
(*                                                                         *)
(* Positions are 0-based as in the source: the genome, the stacks and the  *)
(* arrays are TLA+ sequences and functions read through GenomeAt, Back.    *)
(* Registers hold doubles; the model keeps them as exact fractions <<n,d>> *)
(* (d > 0, lowest terms), which is what the source computes as long as no  *)
(* rounding happens.                                                       *)
(*                                                                         *)
(* emp_assert is compiled out under EMP_NDEBUG (src/unnamed/part_001).     *)
(* The model runs the release semantics and records the first assertion    *)
(* that would have failed in assert_fail; the debug build is the same      *)
(* behaviour cut at that point.  An access outside a container is undefined*)
(* behaviour: it is recorded in ub, its outcomes are enumerated by the     *)
(* action where it happens, and the state it leads to is terminal.         *)
(***************************************************************************)
EXTENDS Integers, Sequences, FiniteSets, TLC

REGS == 16

INST_ARGS == 3

STACK_CAP == 16

\* Bounds of the exploration.
MaxGenome == 4

MaxScopedGenome == 5

MaxSteps == 10

MaxRegStack == 2

MaxVal == 20

MaxDeepSteps == 18

RegIds == 0 .. (REGS - 1)

ArgIds == 0 .. (INST_ARGS - 1)

VARIABLES genome, regs, inputs, outputs, stacks, fun_starts, inst_ptr,
          scope_stack, reg_stack, call_stack, errors,
          ub, assert_fail, log, op, steps,
          os, reloaded, inst_lib, init, pc

\* What the hardware's own operations leave alone: the stream PrintGenome
\* wrote to (os), the genome of the hardware Load was called on (reloaded), and
\* the function-local statics of GetInstLib (inst_lib, init) with the position
\* of each thread that is inside it (pc).
outside == <<os, reloaded, inst_lib, init, pc>>

vars == <<genome, regs, inputs, outputs, stacks, fun_starts, inst_ptr,
          scope_stack, reg_stack, call_stack, errors,
          ub, assert_fail, log, op, steps, os, reloaded, inst_lib, init, pc>>

----------------------------------------------------------------------------
\* double arithmetic, as exact fractions

Abs(x) == IF x < 0 THEN -x ELSE x

RECURSIVE GCD(_, _)
GCD(a, b) == IF b = 0 THEN a ELSE GCD(b, a % b)

Frac(n, d) ==
    LET s == IF d < 0 THEN -1 ELSE 1
        g == GCD(Abs(n), Abs(d))
    IN  <<(s * n) \div g, (s * d) \div g>>

Dbl(i) == <<i, 1>>

DAdd(x, y) == Frac(x[1] * y[2] + y[1] * x[2], x[2] * y[2])

\* operator- that leaves its left operand as it is.
DSubKeep(x, y) == x

DSub(x, y) == Frac(x[1] * y[2] - y[1] * x[2], x[2] * y[2])

DMult(x, y) == Frac(x[1] * y[1], x[2] * y[2])

DDiv(x, y) == Frac(x[1] * y[2], x[2] * y[1])

DLess(x, y) == x[1] * y[2] < y[1] * x[2]

\* A test against 0.0 that always succeeds.
DIsZeroAlways(x) == TRUE

DIsZero(x) == x[1] = 0

DBool(b) == IF b THEN Dbl(1) ELSE Dbl(0)

----------------------------------------------------------------------------
\* the types of the source

InstID == {"Inc", "Dec", "Not", "SetReg", "Add", "Sub", "Mult", "Div", "Mod",
           "TestEqu", "TestNEqu", "TestLess",
           "If", "While", "Countdown", "Break", "Scope", "Define", "Call",
           "Push", "Pop", "Input", "Output", "CopyVal", "ScopeReg",
           "Unknown"}

ScopeType == {"ROOT", "BASIC", "LOOP", "FUNCTION"}

Instruction(id, a0, a1, a2) ==
    [id |-> id, args |-> [i \in ArgIds |-> CASE i = 0 -> a0 [] i = 1 -> a1 [] OTHER -> a2]]

ScopeInfo(s, t, p) == [scope |-> s, type |-> t, start_pos |-> p]

RegBackup(s, r, v) == [scope |-> s, reg_id |-> r, value |-> v]

Back(s) == s[Len(s)]

PopBack(s) == SubSeq(s, 1, Len(s) - 1)

GenomeAt(pos) == genome[pos + 1]

\* The hardware as one value: what the member functions read and write.
HW == [regs |-> regs, inputs |-> inputs, outputs |-> outputs, stacks |-> stacks,
       fun_starts |-> fun_starts, inst_ptr |-> inst_ptr,
       scope_stack |-> scope_stack, reg_stack |-> reg_stack,
       call_stack |-> call_stack, errors |-> errors,
       ub |-> ub, assert_fail |-> assert_fail, log |-> log]

----------------------------------------------------------------------------
\* the record of what the last operation did (observation only)

NoInst == Instruction("Unknown", 0, 0, 0)

NoFrame == ScopeInfo(0, "ROOT", 0)

Event(ev, pos, inst, frame, restored, after) ==
    [ev |-> ev, pos |-> pos, inst |-> inst, frame |-> frame,
     restored |-> restored, after |-> after]

DispatchEvent(pos, inst) == Event("dispatch", pos, inst, NoFrame, <<>>, <<>>)

PushEvent(frame) == Event("push", frame.start_pos, NoInst, frame, <<>>, <<>>)

ExitEvent(frame, restored, after) == Event("exit", 0, NoInst, frame, restored, after)

ResetIPEvent(pos) == Event("resetip", pos, NoInst, NoFrame, <<>>, <<>>)

BypassEvent(pos) == Event("bypass", pos, NoInst, NoFrame, <<>>, <<>>)

FirstFail(old, new) == IF old = "none" THEN new ELSE old

----------------------------------------------------------------------------
\* private helpers of AvidaGP

\* PopStack that returns the oldest value instead of back().
PopStackValueFront(m, id) ==
    IF Len(m.stacks[id]) = 0 THEN Dbl(0) ELSE m.stacks[id][1]

PopStackValue(m, id) ==
    IF Len(m.stacks[id]) = 0 THEN Dbl(0) ELSE Back(m.stacks[id])

PopStack(m, id) ==
    IF Len(m.stacks[id]) = 0 THEN m
    ELSE [m EXCEPT !.stacks[id] = PopBack(@)]

\* PushStack without the test against STACK_CAP.
PushStackUnbounded(m, id, value) == [m EXCEPT !.stacks[id] = Append(@, value)]

PushStack(m, id, value) ==
    IF Len(m.stacks[id]) >= STACK_CAP THEN m
    ELSE [m EXCEPT !.stacks[id] = Append(@, value)]

CurScope(m) == Back(m.scope_stack).scope

CurScopeType(m) == Back(m.scope_stack).type

\* RestoreRegs with an if in place of the while: only the top backup is restored.
RestoreRegsOnce(m, cur) ==
    IF Len(m.reg_stack) > 0 /\ Back(m.reg_stack).scope = cur
    THEN [m EXCEPT !.regs[Back(m.reg_stack).reg_id] = Back(m.reg_stack).value,
                   !.reg_stack = PopBack(@)]
    ELSE m

\* RestoreRegs without the assignment to regs: the backups are only dropped.
RECURSIVE RestoreRegsPopOnly(_, _)
RestoreRegsPopOnly(m, cur) ==
    IF Len(m.reg_stack) > 0 /\ Back(m.reg_stack).scope = cur
    THEN RestoreRegsPopOnly([m EXCEPT !.reg_stack = PopBack(@)], cur)
    ELSE m

\* The while loop of ExitScope: the backups on top of reg_stack that belong
\* to the current scope, restored from the top down.
RECURSIVE RestoreRegs(_, _)
RestoreRegs(m, cur) ==
    IF Len(m.reg_stack) > 0 /\ Back(m.reg_stack).scope = cur
    THEN RestoreRegs([m EXCEPT !.regs[Back(m.reg_stack).reg_id] = Back(m.reg_stack).value,
                               !.reg_stack = PopBack(@)], cur)
    ELSE m

ExitScope(m) ==
    LET a1 == IF Len(m.scope_stack) > 1 THEN m.assert_fail
              ELSE FirstFail(m.assert_fail, "ExitScope: scope_stack.size() > 1")
        a2 == IF Len(m.scope_stack) <= REGS THEN a1
              ELSE FirstFail(a1, "ExitScope: scope_stack.size() <= REGS")
        top == Back(m.scope_stack)
        r == RestoreRegs(m, top.scope)
        n == Len(m.reg_stack) - Len(r.reg_stack)
        restored == [i \in 1 .. n |-> m.reg_stack[Len(m.reg_stack) + 1 - i]]
        ids == {restored[i].reg_id : i \in 1 .. n}
    IN  IF Len(m.scope_stack) <= 1
        THEN [m EXCEPT !.assert_fail = a2, !.ub = FirstFail(@, "ExitScope: root frame popped")]
        ELSE [r EXCEPT !.scope_stack = PopBack(@),
                       !.assert_fail = a2,
                       !.log = Append(@, ExitEvent(top, restored, [i \in ids |-> r.regs[i]]))]

InstScope(inst) ==
    CASE inst.id \in {"If", "While", "Countdown", "Define"} -> inst.args[1] + 1
      [] inst.id = "Scope" -> inst.args[0] + 1
      [] OTHER -> 0

\* BypassScope without its while loop: nothing is skipped.
BypassScanNone(ip, scope) == ip

\* The while loop of BypassScope, from the instruction pointer it starts at.
RECURSIVE BypassScan(_, _)
BypassScan(ip, scope) ==
    IF ip + 1 < Len(genome)
    THEN LET test_scope == InstScope(GenomeAt(ip + 1))
         IN  IF test_scope # 0 /\ test_scope <= scope
             THEN (ip + 1) - 1
             ELSE BypassScan(ip + 1, scope)
    ELSE ip

\* BypassScope without its test of the current scope: it leaves the scope on
\* top of the stack whatever that scope is.
BypassScopeAlways(m, scope_arg) ==
    LET m1 == ExitScope([m EXCEPT !.log = Append(@, BypassEvent(m.inst_ptr))])
    IN  [m1 EXCEPT !.inst_ptr = BypassScan(m1.inst_ptr, scope_arg + 1)]

BypassScope(m, scope_arg) ==
    LET scope == scope_arg + 1
    IN  IF CurScope(m) < scope THEN m
        ELSE LET m1 == ExitScope([m EXCEPT !.log = Append(@, BypassEvent(m.inst_ptr))])
             IN  [m1 EXCEPT !.inst_ptr = BypassScan(m1.inst_ptr, scope)]

\* The while loop of ResetIP.
RECURSIVE ExitAllScopes(_)
ExitAllScopes(m) ==
    IF Len(m.scope_stack) > 1 THEN ExitAllScopes(ExitScope(m)) ELSE m

\* ResetIP without its while loop: the open scopes are kept.
ResetIPKeepScopes(m) ==
    [m EXCEPT !.inst_ptr = 0, !.call_stack = <<>>,
              !.log = Append(@, ResetIPEvent(m.inst_ptr))]

\* ResetIP that also forgets where the functions start.
ResetIPForgetFunctions(m) ==
    LET m1 == [m EXCEPT !.inst_ptr = 0, !.log = Append(@, ResetIPEvent(m.inst_ptr))]
    IN  [ExitAllScopes(m1) EXCEPT !.call_stack = <<>>,
                                  !.fun_starts = [i \in RegIds |-> -1]]

ResetIP(m) ==
    LET m1 == [m EXCEPT !.inst_ptr = 0, !.log = Append(@, ResetIPEvent(m.inst_ptr))]
    IN  [ExitAllScopes(m1) EXCEPT !.call_stack = <<>>]

----------------------------------------------------------------------------
\* UpdateScope and ProcessInst call each other

\* The arguments an opcode uses as an index into regs, inputs, outputs, stacks
\* or fun_starts (emp::array of REGS entries).
IndexArgs(inst) ==
    LET a == inst.args
    IN  CASE inst.id \in {"Inc", "Dec", "Not", "SetReg", "If", "While", "Countdown",
                          "Define", "Call", "ScopeReg"} -> {a[0]}
          [] inst.id \in {"Add", "Sub", "Mult", "Div", "Mod",
                          "TestEqu", "TestNEqu", "TestLess"} -> {a[0], a[1], a[2]}
          [] inst.id \in {"Push", "Pop", "Input", "Output", "CopyVal"} -> {a[0], a[1]}
          [] OTHER -> {}

\* The test of Call without its look at the opcode: any position inside the
\* genome counts as a function.
NoFunctionAtEnd(def_pos) == def_pos < 0 \/ def_pos >= Len(genome)

\* The test of Call: def_pos >= genome.size() || genome[def_pos].id != Define,
\* with size_t def_pos = fun_starts[..], so that -1 is the largest size_t.
NoFunctionAt(def_pos) ==
    \/ def_pos < 0
    \/ def_pos >= Len(genome)
    \/ GenomeAt(def_pos).id # "Define"

\* The Div case with a destination that is zeroed when the divisor is 0.
DivideOrZero(m, a) ==
    IF DIsZero(m.regs[a[1]])
    THEN [m EXCEPT !.errors = @ + 1, !.regs[a[2]] = Dbl(0)]
    ELSE [m EXCEPT !.regs[a[2]] = DDiv(m.regs[a[0]], m.regs[a[1]])]

\* The body of the Div case.
DivideOrCount(m, a) ==
    IF DIsZero(m.regs[a[1]])
    THEN [m EXCEPT !.errors = @ + 1]
    ELSE [m EXCEPT !.regs[a[2]] = DDiv(m.regs[a[0]], m.regs[a[1]])]

\* A Mod case that stores the remainder of the division (fmod).
RemainderOrCount(m, a) ==
    IF DIsZero(m.regs[a[1]])
    THEN [m EXCEPT !.errors = @ + 1]
    ELSE LET q == DDiv(m.regs[a[0]], m.regs[a[1]])
             t == IF q[1] < 0 THEN -((-q[1]) \div q[2]) ELSE q[1] \div q[2]
         IN  [m EXCEPT !.regs[a[2]] =
                 DSub(m.regs[a[0]], DMult(m.regs[a[1]], Dbl(t)))]

\* The body of the Mod case: the source divides with / here too.
ModOrCount(m, a) ==
    LET base == m.regs[a[1]]
    IN  IF DIsZero(base)
        THEN [m EXCEPT !.errors = @ + 1]
        ELSE [m EXCEPT !.regs[a[2]] = DDiv(m.regs[a[0]], base)]

RECURSIVE UpdateScope(_, _, _)
RECURSIVE ProcessInst(_, _)

\* genome[inst_ptr] as UpdateScope reads it before it dispatches again.
Redispatch(m) ==
    IF m.inst_ptr < Len(genome)
    THEN ProcessInst(m, GenomeAt(m.inst_ptr))
    ELSE [m EXCEPT !.ub = FirstFail(@, "UpdateScope: genome[inst_ptr] out of range")]

\* UpdateScope with new_scope >= cur_scope as the test for entering.
UpdateScopeEnterOnEqual(m, scope_arg, type) ==
    LET cur_scope == CurScope(m)
        new_scope == scope_arg + 1
    IN  IF new_scope >= cur_scope
        THEN LET frame == ScopeInfo(new_scope, type, m.inst_ptr)
             IN  [hw  |-> [m EXCEPT !.scope_stack = Append(@, frame),
                                    !.log = Append(@, PushEvent(frame))],
                  ret |-> TRUE]
        ELSE IF CurScopeType(m) = "LOOP"
        THEN LET m1 == [m EXCEPT !.inst_ptr = Back(m.scope_stack).start_pos]
                 m2 == ExitScope(m1)
             IN  [hw |-> Redispatch(m2), ret |-> FALSE]
        ELSE IF CurScopeType(m) = "FUNCTION"
        THEN IF Len(m.call_stack) = 0
             THEN [hw  |-> [m EXCEPT !.ub = FirstFail(@, "UpdateScope: call_stack.back() on an empty stack")],
                   ret |-> FALSE]
             ELSE LET m1 == [m EXCEPT !.inst_ptr = Back(m.call_stack)]
                      m2 == IF m1.inst_ptr >= Len(genome)
                            THEN ResetIP(m1)
                            ELSE ExitScope([m1 EXCEPT !.call_stack = PopBack(@)])
                  IN  [hw |-> Redispatch(m2), ret |-> FALSE]
        ELSE UpdateScope(ExitScope(m), new_scope, type)

\* Returns [hw, ret]: the hardware afterwards and the bool the source returns.
UpdateScope(m, scope_arg, type) ==
    LET cur_scope == CurScope(m)
        new_scope == scope_arg + 1
    IN  IF new_scope > cur_scope
        THEN LET frame == ScopeInfo(new_scope, type, m.inst_ptr)
             IN  [hw  |-> [m EXCEPT !.scope_stack = Append(@, frame),
                                    !.log = Append(@, PushEvent(frame))],
                  ret |-> TRUE]
        ELSE IF CurScopeType(m) = "LOOP"
        THEN LET m1 == [m EXCEPT !.inst_ptr = Back(m.scope_stack).start_pos]
                 m2 == ExitScope(m1)
             IN  [hw |-> Redispatch(m2), ret |-> FALSE]
        ELSE IF CurScopeType(m) = "FUNCTION"
        THEN IF Len(m.call_stack) = 0
             THEN [hw  |-> [m EXCEPT !.ub = FirstFail(@, "UpdateScope: call_stack.back() on an empty stack")],
                   ret |-> FALSE]
             ELSE LET m1 == [m EXCEPT !.inst_ptr = Back(m.call_stack)]
                      m2 == IF m1.inst_ptr >= Len(genome)
                            THEN ResetIP(m1)
                            ELSE ExitScope([m1 EXCEPT !.call_stack = PopBack(@)])
                  IN  [hw |-> Redispatch(m2), ret |-> FALSE]
        ELSE \* the source passes on new_scope, which it has already incremented
             UpdateScope(ExitScope(m), new_scope, type)

ProcessInst(m0, inst) ==
    LET a == inst.args
        m == [m0 EXCEPT !.log = Append(@, DispatchEvent(m0.inst_ptr, inst))]
    IN  IF inst.id \notin (InstID \ {"Unknown"})
        THEN [m EXCEPT !.assert_fail = FirstFail(@, "ProcessInst: unknown instruction")]
        ELSE IF ~(IndexArgs(inst) \subseteq RegIds)
        THEN [m EXCEPT !.ub = FirstFail(@, "ProcessInst: array index out of range")]
        ELSE CASE inst.id = "Inc" -> [m EXCEPT !.regs[a[0]] = DAdd(@, Dbl(1))]
               [] inst.id = "Dec" -> [m EXCEPT !.regs[a[0]] = DSub(@, Dbl(1))]
               [] inst.id = "Not" -> [m EXCEPT !.regs[a[0]] = DBool(DIsZero(@))]
               [] inst.id = "SetReg" -> [m EXCEPT !.regs[a[0]] = Dbl(a[1])]
               [] inst.id = "Add" -> [m EXCEPT !.regs[a[2]] = DAdd(m.regs[a[0]], m.regs[a[1]])]
               [] inst.id = "Sub" -> [m EXCEPT !.regs[a[2]] = DSub(m.regs[a[0]], m.regs[a[1]])]
               [] inst.id = "Mult" -> [m EXCEPT !.regs[a[2]] = DMult(m.regs[a[0]], m.regs[a[1]])]
               [] inst.id = "Div" -> DivideOrCount(m, a)
               [] inst.id = "Mod" -> ModOrCount(m, a)
               [] inst.id = "TestEqu" ->
                    [m EXCEPT !.regs[a[2]] = DBool(m.regs[a[0]] = m.regs[a[1]])]
               [] inst.id = "TestNEqu" ->
                    [m EXCEPT !.regs[a[2]] = DBool(m.regs[a[0]] # m.regs[a[1]])]
               [] inst.id = "TestLess" ->
                    [m EXCEPT !.regs[a[2]] = DBool(DLess(m.regs[a[0]], m.regs[a[1]]))]
               [] inst.id = "If" ->
                    LET u == UpdateScope(m, a[1], "BASIC")
                    IN  IF ~u.ret THEN u.hw
                        ELSE IF DIsZero(u.hw.regs[a[0]]) THEN BypassScope(u.hw, a[1])
                        ELSE u.hw
               [] inst.id = "While" ->
                    LET u == UpdateScope(m, a[1], "LOOP")
                    IN  IF ~u.ret THEN u.hw
                        ELSE IF DIsZero(u.hw.regs[a[0]]) THEN BypassScope(u.hw, a[1])
                        ELSE u.hw
               [] inst.id = "Countdown" ->
                    LET u == UpdateScope(m, a[1], "LOOP")
                    IN  IF ~u.ret THEN u.hw
                        ELSE IF DIsZero(u.hw.regs[a[0]]) THEN BypassScope(u.hw, a[1])
                        ELSE [u.hw EXCEPT !.regs[a[0]] = DSub(@, Dbl(1))]
               [] inst.id = "Break" -> BypassScope(m, a[0])
               [] inst.id = "Scope" -> UpdateScope(m, a[0], "BASIC").hw
               [] inst.id = "Define" ->
                    LET u == UpdateScope(m, a[1], "BASIC")
                    IN  IF ~u.ret THEN u.hw
                        ELSE BypassScope([u.hw EXCEPT !.fun_starts[a[0]] = u.hw.inst_ptr], a[1])
               [] inst.id = "Call" ->
                    LET fs == m.fun_starts[a[0]]
                    IN  IF NoFunctionAt(fs) THEN m
                        ELSE LET fun_scope == GenomeAt(fs).args[1]
                                 u == UpdateScope(m, fun_scope, "FUNCTION")
                             IN  IF ~u.ret THEN u.hw
                                 ELSE [u.hw EXCEPT !.call_stack = Append(@, u.hw.inst_ptr + 1),
                                                   !.inst_ptr = fs + 1]
               [] inst.id = "Push" -> PushStack(m, a[1], m.regs[a[0]])
               [] inst.id = "Pop" ->
                    [PopStack(m, a[0]) EXCEPT !.regs[a[1]] = PopStackValue(m, a[0])]
               [] inst.id = "Input" -> [m EXCEPT !.regs[a[1]] = m.inputs[a[0]]]
               [] inst.id = "Output" -> [m EXCEPT !.outputs[a[1]] = m.regs[a[0]]]
               [] inst.id = "CopyVal" -> [m EXCEPT !.regs[a[1]] = m.regs[a[0]]]
               [] inst.id = "ScopeReg" ->
                    [m EXCEPT !.reg_stack = Append(@, RegBackup(CurScope(m), a[0], m.regs[a[0]]))]

----------------------------------------------------------------------------
\* the public operations

\* ResetHardware that sets the input buffer as it sets the registers.
ResetHardwareInputsAsRegs(m) ==
    ResetIP([m EXCEPT !.regs = [i \in RegIds |-> Dbl(i)],
                      !.inputs = [i \in RegIds |-> Dbl(i)],
                      !.outputs = [i \in RegIds |-> Dbl(0)],
                      !.stacks = [i \in RegIds |-> <<>>],
                      !.fun_starts = [i \in RegIds |-> -1],
                      !.errors = 0])

ResetHardwareOf(m) ==
    ResetIP([m EXCEPT !.regs = [i \in RegIds |-> Dbl(i)],
                      !.inputs = [i \in RegIds |-> Dbl(0)],
                      !.outputs = [i \in RegIds |-> Dbl(0)],
                      !.stacks = [i \in RegIds |-> <<>>],
                      !.fun_starts = [i \in RegIds |-> -1],
                      !.errors = 0])

\* AvidaGP(): inst_ptr(0), errors(0), the initial scope, then Reset().  The
\* arrays are overwritten by ResetHardware before anything reads them.
Constructed ==
    ResetHardwareOf([regs |-> [i \in RegIds |-> Dbl(0)],
                     inputs |-> [i \in RegIds |-> Dbl(0)],
                     outputs |-> [i \in RegIds |-> Dbl(0)],
                     stacks |-> [i \in RegIds |-> <<>>],
                     fun_starts |-> [i \in RegIds |-> 0],
                     inst_ptr |-> 0,
                     scope_stack |-> <<ScopeInfo(0, "ROOT", 0)>>,
                     reg_stack |-> <<>>,
                     call_stack |-> <<>>,
                     errors |-> 0,
                     ub |-> "none", assert_fail |-> "none", log |-> <<>>])

\* The hardware after an operation that left it as m.
Becomes(m) ==
    /\ regs' = m.regs
    /\ inputs' = m.inputs
    /\ outputs' = m.outputs
    /\ stacks' = m.stacks
    /\ fun_starts' = m.fun_starts
    /\ inst_ptr' = m.inst_ptr
    /\ scope_stack' = m.scope_stack
    /\ reg_stack' = m.reg_stack
    /\ call_stack' = m.call_stack
    /\ errors' = m.errors
    /\ ub' = m.ub
    /\ assert_fail' = m.assert_fail
    /\ log' = m.log

\* The instructions the main specification assembles genomes from: the scope
\* engine's opcodes over registers 0 and 1 and scopes 0 and 1.
InstPool ==
    { Instruction("Dec", 1, 0, 0),
      Instruction("ScopeReg", 1, 0, 0),
      Instruction("Scope", 0, 0, 0),
      Instruction("If", 1, 0, 0),
      Instruction("Countdown", 1, 1, 0),
      Instruction("Break", 0, 0, 0),
      Instruction("Define", 0, 1, 0),
      Instruction("Call", 0, 0, 0) }

\* Callers assemble a genome on hardware that has not run since its reset.
Fresh ==
    /\ steps = 0
    /\ [HW EXCEPT !.log = <<>>] = [Constructed EXCEPT !.log = <<>>]

PushInstFrom(pool, maxlen) ==
    /\ Fresh
    /\ Len(genome) < maxlen
    /\ \E inst \in pool : genome' = Append(genome, inst)
    /\ UNCHANGED outside
    /\ op' = "PushInst"
    /\ log' = <<>>
    /\ UNCHANGED <<regs, inputs, outputs, stacks, fun_starts, inst_ptr, scope_stack,
                   reg_stack, call_stack, errors, ub, assert_fail, steps>>

PushInst == PushInstFrom(InstPool, MaxGenome)

\* What the exploration follows: a bounded backup stack and bounded registers.
InBounds(m) ==
    /\ Len(m.reg_stack) <= MaxRegStack
    /\ \A i \in RegIds : Abs(m.regs[i][1]) <= MaxVal /\ m.regs[i][2] <= MaxVal

\* SingleProcess without its inst_ptr++.
AdvanceNot(m) == m

\* The inst_ptr++ that ends SingleProcess.
Advance(m) == [m EXCEPT !.inst_ptr = @ + 1]

\* SingleProcess.  With an empty genome, genome[inst_ptr] reads outside the
\* vector: the bounds-checked build stops there, the unchecked build dispatches
\* whatever the read yields (garbage samples it).
SingleProcessWith(garbage, maxsteps) ==
    /\ ub = "none"
    /\ steps < maxsteps
    /\ LET m0 == [HW EXCEPT !.log = <<>>]
           m1 == IF m0.inst_ptr >= Len(genome) THEN ResetIP(m0) ELSE m0
       IN  IF m1.inst_ptr < Len(genome)
           THEN LET m2 == ProcessInst(m1, GenomeAt(m1.inst_ptr))
                IN  /\ InBounds(m2)
                    /\ Becomes(Advance(m2))
           ELSE \/ Becomes([m1 EXCEPT !.ub = "SingleProcess: genome[inst_ptr] out of range"])
                \/ \E inst \in garbage :
                     LET m2 == ProcessInst(m1, inst)
                     IN  Becomes([Advance(m2) EXCEPT
                                     !.ub = "SingleProcess: genome[inst_ptr] out of range"])
    /\ UNCHANGED outside
    /\ op' = "SingleProcess"
    /\ steps' = steps + 1
    /\ UNCHANGED genome

SingleProcess == SingleProcessWith(InstPool, MaxSteps)

ResetHardware ==
    /\ ub = "none"
    /\ Becomes(ResetHardwareOf([HW EXCEPT !.log = <<>>]))
    /\ UNCHANGED outside
    /\ op' = "ResetHardware"
    /\ steps' = 0
    /\ UNCHANGED genome

Reset ==
    /\ ub = "none"
    /\ genome' = <<>>
    /\ Becomes(ResetHardwareOf([HW EXCEPT !.log = <<>>]))
    /\ UNCHANGED outside
    /\ op' = "Reset"
    /\ steps' = 0

\* The threads that may call GetInstLib.
Threads == {1, 2}

\* The statics of GetInstLib before its first call: an empty library.  The
\* library is kept as the number of times each of its entries has been
\* registered, the entries in the order in which GetInstLib registers them.
NoLibrary == <<>>

\* The constructed hardware, holding one of the genomes of loaded (the empty
\* genome of the constructor, or one given to SetGenome right after it).
InitWith(loaded) ==
    /\ genome \in loaded
    /\ regs = Constructed.regs
    /\ inputs = Constructed.inputs
    /\ outputs = Constructed.outputs
    /\ stacks = Constructed.stacks
    /\ fun_starts = Constructed.fun_starts
    /\ inst_ptr = Constructed.inst_ptr
    /\ scope_stack = Constructed.scope_stack
    /\ reg_stack = Constructed.reg_stack
    /\ call_stack = Constructed.call_stack
    /\ errors = Constructed.errors
    /\ ub = "none"
    /\ assert_fail = "none"
    /\ log = <<>>
    /\ op = IF genome = <<>> THEN "AvidaGP" ELSE "SetGenome"
    /\ steps = 0
    /\ os = <<>>
    /\ reloaded = [ok |-> FALSE, genome |-> <<>>]
    /\ inst_lib = NoLibrary
    /\ init = FALSE
    /\ pc = [t \in Threads |-> 0]

Init == InitWith({<<>>})

Next == PushInst \/ SingleProcess \/ ResetHardware \/ Reset

Spec == Init /\ [][Next]_vars

----------------------------------------------------------------------------
\* Genomes of five instructions over the register-backup opcodes: a scope that
\* backs a register up more than once and is then left by a later instruction.

ScopedPool ==
    { Instruction("Dec", 1, 0, 0),
      Instruction("ScopeReg", 1, 0, 0),
      Instruction("Scope", 0, 0, 0),
      Instruction("While", 1, 0, 0),
      Instruction("Countdown", 2, 1, 0) }

PushScoped == PushInstFrom(ScopedPool, MaxScopedGenome)

NextScoped == PushScoped \/ SingleProcess \/ ResetHardware \/ Reset

\* Scenario 5 of the specification's concrete scenarios.
ScopedScenario ==
    << Instruction("SetReg", 3, 1, 0),
       Instruction("Scope", 0, 0, 0),
       Instruction("ScopeReg", 3, 0, 0),
       Instruction("SetReg", 3, 9, 0),
       Instruction("Scope", 0, 0, 0) >>

InitScoped == InitWith({<<>>, ScopedScenario})

SpecScoped == InitScoped /\ [][NextScoped]_vars

----------------------------------------------------------------------------
\* Genomes that open one scope after the other, up to all REGS of them, loaded
\* with SetGenome on the constructed hardware.

Ladder(id, n) ==
    [i \in 1 .. n |-> IF id = "Scope" THEN Instruction(id, i - 1, 0, 0)
                                       ELSE Instruction(id, 1, i - 1, 0)]

DeepGenomes == {Ladder(id, n) : id \in {"Scope", "If", "While"}, n \in 1 .. REGS}

InitDeep == InitWith(DeepGenomes)

DeepProcess == SingleProcessWith({}, MaxDeepSteps)

NextDeep == DeepProcess \/ ResetHardware

SpecDeep == InitDeep /\ [][NextDeep]_vars

----------------------------------------------------------------------------
\* The concrete scenarios of the specification: a genome given to SetGenome on
\* the constructed hardware and run by Process(n), one SingleProcess at a time.

CountdownScenario ==
    << Instruction("SetReg", 0, 3, 0),
       Instruction("SetReg", 1, 0, 0),
       Instruction("Countdown", 0, 1, 0),
       Instruction("Inc", 1, 0, 0) >>

FunctionScenario ==
    << Instruction("Define", 0, 1, 0),
       Instruction("SetReg", 5, 99, 0),
       Instruction("Call", 0, 0, 0),
       Instruction("Inc", 5, 0, 0) >>

IfTakenScenario ==
    << Instruction("SetReg", 0, 1, 0),
       Instruction("If", 0, 1, 0),
       Instruction("SetReg", 2, 42, 0) >>

IfSkippedScenario ==
    << Instruction("SetReg", 0, 0, 0),
       Instruction("If", 0, 1, 0),
       Instruction("SetReg", 2, 42, 0) >>

DivByZeroScenario ==
    << Instruction("SetReg", 1, 0, 0),
       Instruction("Div", 0, 1, 2) >>

Scenarios == {CountdownScenario, FunctionScenario, IfTakenScenario,
              IfSkippedScenario, DivByZeroScenario, ScopedScenario}

MaxScenarioSteps == 20

\* One iteration of Process(num_inst) on a loaded genome, num_inst <= maxsteps.
ProcessUpTo(maxsteps) ==
    /\ ub = "none"
    /\ steps < maxsteps
    /\ genome # <<>>
    /\ LET m0 == [HW EXCEPT !.log = <<>>]
           m1 == IF m0.inst_ptr >= Len(genome) THEN ResetIP(m0) ELSE m0
           m2 == ProcessInst(m1, GenomeAt(m1.inst_ptr))
       IN  Becomes(Advance(m2))
    /\ UNCHANGED outside
    /\ op' = "SingleProcess"
    /\ steps' = steps + 1
    /\ UNCHANGED genome

Process == ProcessUpTo(MaxScenarioSteps)

InitScenario == InitWith(Scenarios)

NextScenario == Process \/ ResetHardware

SpecScenario == InitScenario /\ [][NextScenario]_vars

----------------------------------------------------------------------------
\* Genomes over If and the instructions that close its scope, and the two If
\* scenarios of the specification.

MaxIfGenome == 4

IfPool ==
    { Instruction("Dec", 1, 0, 0),
      Instruction("If", 1, 0, 0),
      Instruction("If", 1, 1, 0),
      Instruction("Scope", 0, 0, 0),
      Instruction("Scope", 1, 0, 0) }

PushIf == PushInstFrom(IfPool, MaxIfGenome)

InitIf == InitWith({<<>>, IfTakenScenario, IfSkippedScenario})

NextIf == PushIf \/ Process \/ ResetHardware

SpecIf == InitIf /\ [][NextIf]_vars

----------------------------------------------------------------------------
\* Genomes over Define and Call that the caller edits between steps: SetInst
\* overwrites a position, SetGenome loads a shorter genome.  Neither touches
\* the hardware, so fun_starts keeps the positions recorded before the edit.

MaxCallGenome == 3

CallPool ==
    { Instruction("Define", 0, 0, 0),
      Instruction("Call", 0, 0, 0),
      Instruction("Inc", 1, 0, 0),
      Instruction("Scope", 0, 0, 0) }

MaxCallSteps == 5

PushCall == PushInstFrom(CallPool, MaxCallGenome)

CallProcess == ProcessUpTo(MaxCallSteps)

SetInst ==
    /\ ub = "none"
    /\ \E pos \in 0 .. (Len(genome) - 1), inst \in CallPool :
          /\ GenomeAt(pos) # inst
          /\ genome' = [genome EXCEPT ![pos + 1] = inst]
    /\ UNCHANGED outside
    /\ op' = "SetInst"
    /\ log' = <<>>
    /\ UNCHANGED <<regs, inputs, outputs, stacks, fun_starts, inst_ptr, scope_stack,
                   reg_stack, call_stack, errors, ub, assert_fail, steps>>

SetGenome ==
    /\ ub = "none"
    /\ \E n \in 1 .. (Len(genome) - 1) : genome' = SubSeq(genome, 1, n)
    /\ UNCHANGED outside
    /\ op' = "SetGenome"
    /\ log' = <<>>
    /\ UNCHANGED <<regs, inputs, outputs, stacks, fun_starts, inst_ptr, scope_stack,
                   reg_stack, call_stack, errors, ub, assert_fail, steps>>

NextCall == PushCall \/ CallProcess \/ ResetHardware \/ SetInst \/ SetGenome

SpecCall == Init /\ [][NextCall]_vars

----------------------------------------------------------------------------
\* Genomes over the arithmetic opcodes, with zero and non-zero divisors and
\* with one register argument equal to REGS, one past the last register.

MaxArithGenome == 4

MaxArithSteps == 6

ArithPool ==
    { Instruction("SetReg", 1, 0, 0),
      Instruction("Inc", 1, 0, 0),
      Instruction("Div", 0, 1, 2),
      Instruction("Mod", 3, 1, 3),
      Instruction("Inc", REGS, 0, 0) }

PushArith == PushInstFrom(ArithPool, MaxArithGenome)

ArithProcess == ProcessUpTo(MaxArithSteps)

NextArith == PushArith \/ ArithProcess \/ ResetHardware

SpecArith == Init /\ [][NextArith]_vars

----------------------------------------------------------------------------
\* Genomes over Push and Pop, run long enough to fill an auxiliary stack.

MaxStackGenome == 3

MaxStackSteps == 18

StackPool ==
    { Instruction("Push", 2, 0, 0),
      Instruction("Push", 1, 0, 0),
      Instruction("Pop", 0, 3, 0) }

PushStackInst == PushInstFrom(StackPool, MaxStackGenome)

StackProcess == ProcessUpTo(MaxStackSteps)

NextStack == PushStackInst \/ StackProcess \/ ResetHardware

SpecStack == Init /\ [][NextStack]_vars

----------------------------------------------------------------------------
\* Genomes that read the input buffer and write the output buffer, edited and
\* reset between steps.

MaxIOGenome == 3

MaxIOSteps == 5

IOPool ==
    { Instruction("Input", 1, 2, 0),
      Instruction("Output", 2, 1, 0),
      Instruction("Inc", 2, 0, 0),
      Instruction("CopyVal", 2, 0, 0) }

PushIO == PushInstFrom(IOPool, MaxIOGenome)

\* SetInst(pos, inst) on a position of the genome, at any moment of a run.
SetInstIO ==
    /\ ub = "none"
    /\ \E pos \in 0 .. (Len(genome) - 1), inst \in IOPool :
          /\ GenomeAt(pos) # inst
          /\ genome' = [genome EXCEPT ![pos + 1] = inst]
    /\ UNCHANGED outside
    /\ op' = "SetInst"
    /\ log' = <<>>
    /\ UNCHANGED <<regs, inputs, outputs, stacks, fun_starts, inst_ptr, scope_stack,
                   reg_stack, call_stack, errors, ub, assert_fail, steps>>

IOProcess == ProcessUpTo(MaxIOSteps)

NextIO == PushIO \/ SetInstIO \/ IOProcess \/ ResetHardware \/ Reset

SpecIO == Init /\ [][NextIO]_vars

----------------------------------------------------------------------------
\* loops with nested scopes, and a function called from a function

\* Function 1 (level 2) breaks out of its body; function 0 (level 1) calls it;
\* the program calls function 0 from position 0 once both are defined.
NestedBreakScenario ==
    << Instruction("Call", 0, 0, 0),
       Instruction("Define", 1, 1, 0),
       Instruction("Inc", 1, 0, 0),
       Instruction("Break", 1, 0, 0),
       Instruction("Define", 0, 0, 0),
       Instruction("Inc", 1, 0, 0),
       Instruction("Call", 1, 0, 0),
       Instruction("Scope", 0, 0, 0) >>

\* A loop of level 1 whose body opens a scope of level 2 and breaks out of
\* scope 0 from inside it.
BreakInLoopScenario ==
    << Instruction("Countdown", 2, 0, 0),
       Instruction("Scope", 1, 0, 0),
       Instruction("Break", 0, 0, 0),
       Instruction("Scope", 0, 0, 0) >>

MaxLoopGenome == 5

MaxLoopSteps == 9

LoopPool ==
    { Instruction("SetReg", 2, 3, 0),
      Instruction("Countdown", 2, 0, 0),
      Instruction("Inc", 1, 0, 0),
      Instruction("Scope", 1, 0, 0),
      Instruction("Scope", 0, 0, 0) }

PushLoop == PushInstFrom(LoopPool, MaxLoopGenome)

LoopProcess == ProcessUpTo(MaxLoopSteps)

NextLoop == PushLoop \/ LoopProcess \/ ResetHardware

SpecLoop == InitWith({<<>>, NestedBreakScenario, BreakInLoopScenario}) /\ [][NextLoop]_vars

----------------------------------------------------------------------------
\* PrintGenome and Load: the textual form of a genome

\* The text written to a stream, line by line: the number of ' ' characters
\* the line starts with, and the words that follow, one ' ' between two words.
Line(indent, words) == [indent |-> indent, words |-> words]

\* The arity each AddInst call of GetInstLib registers for its opcode.
NumArgs ==
    [id \in InstID |->
        CASE id \in {"Inc", "Dec", "Not", "Break", "Scope", "Call", "ScopeReg"} -> 1
          [] id \in {"SetReg", "If", "While", "Define", "Push", "Pop",
                     "Input", "Output", "CopyVal"} -> 2
          [] id \in {"Add", "Sub", "Mult", "Div", "Mod", "TestEqu", "TestNEqu",
                     "TestLess", "Countdown"} -> 3
          [] OTHER -> 0]

\* The name each AddInst call registers: the enumerator, spelled out.
GetName(id) == id

\* The two names the table of argument names holds for register i, as the
\* specification gives them: the numeral of i, and "Reg" followed by the
\* letter i places after 'A'.  (to_string, which builds the names that
\* GetInstLib passes to AddArg, is not part of the sources.)
ArgNames(i) ==
    {ToString(i),
     "Reg" \o <<"A", "B", "C", "D", "E", "F", "G", "H",
                "I", "J", "K", "L", "M", "N", "O", "P">>[i + 1]}

\* The arguments of an instruction in reverse order.
PrintArgsReversed(inst) ==
    [k \in 1 .. NumArgs[inst.id] |-> ToString(inst.args[NumArgs[inst.id] - k])]

\* The arguments PrintGenome writes: the first num_args ones, as numerals.
PrintArgs(inst) ==
    [k \in 1 .. NumArgs[inst.id] |-> ToString(inst.args[k - 1])]

\* Two ' ' characters for every level of scope.
IndentTwice(cur_scope) == 2 * cur_scope

\* The ' ' characters a line starts with: one for every level of cur_scope.
Indent(cur_scope) == cur_scope

\* The body of PrintGenome's loop, from instruction k of g on.
RECURSIVE PrintFrom(_, _, _)
PrintFrom(g, k, cur_scope) ==
    IF k > Len(g) THEN <<>>
    ELSE LET inst      == g[k]
             new_scope == InstScope(inst)
             dashes    == IF new_scope # 0 /\ new_scope = cur_scope
                          THEN <<Line(Indent(cur_scope), <<"----">>)>>
                          ELSE <<>>
             cur       == IF new_scope # 0 /\ new_scope < cur_scope
                          THEN new_scope - 1
                          ELSE cur_scope
             arrow     == IF new_scope # 0 /\ new_scope > cur
                          THEN <<"-->">>
                          ELSE <<>>
             line      == Line(Indent(cur), <<GetName(inst.id)>> \o PrintArgs(inst) \o arrow)
         IN  dashes \o <<line>> \o
             PrintFrom(g, k + 1, IF new_scope # 0 THEN new_scope ELSE cur)

\* PrintGenome(os): the genome is written to the stream; the hardware is const.
PrintGenome ==
    /\ ub = "none"
    /\ os' = PrintFrom(genome, 1, 0)
    /\ op' = "PrintGenome"
    /\ UNCHANGED <<genome, regs, inputs, outputs, stacks, fun_starts, inst_ptr,
                   scope_stack, reg_stack, call_stack, errors,
                   ub, assert_fail, log, steps, reloaded, inst_lib, init, pc>>

\* Load is declared in the class and defined nowhere in the sources; what
\* follows is the parser the specification describes: one instruction per
\* line, the instruction recognised by its name through the library, each
\* argument through the table of argument names, the lines of dashes and the
\* arrows of the textual form carrying no instruction and no argument.
IsArgName(word) == \E i \in RegIds : word \in ArgNames(i)

ArgValue(word) == CHOOSE i \in RegIds : word \in ArgNames(i)

\* The words of a line that stand for arguments.
ArgWords(words) ==
    LET n == IF words[Len(words)] = "-->" THEN Len(words) - 1 ELSE Len(words)
    IN  SubSeq(words, 2, n)

Parses(line) ==
    \/ line.words = <<"----">>
    \/ /\ \E id \in InstID : GetName(id) = line.words[1]
       /\ Len(ArgWords(line.words)) <= INST_ARGS
       /\ \A k \in DOMAIN ArgWords(line.words) : IsArgName(ArgWords(line.words)[k])

ParseInst(line) ==
    LET id == CHOOSE i \in InstID : GetName(i) = line.words[1]
        aw == ArgWords(line.words)
        arg(k) == IF k <= Len(aw) THEN ArgValue(aw[k]) ELSE 0
    IN  Instruction(id, arg(1), arg(2), arg(3))

RECURSIVE LoadFrom(_, _)
LoadFrom(text, k) ==
    IF k > Len(text) THEN <<>>
    ELSE IF text[k].words = <<"----">> THEN LoadFrom(text, k + 1)
    ELSE <<ParseInst(text[k])>> \o LoadFrom(text, k + 1)

\* Load(input), on the text PrintGenome has just written: the result it
\* returns and the genome it leaves in the hardware it was called on.
Load ==
    /\ ub = "none"
    /\ op = "PrintGenome"
    /\ reloaded' = IF \A k \in DOMAIN os : Parses(os[k])
                   THEN [ok |-> TRUE, genome |-> LoadFrom(os, 1)]
                   ELSE [ok |-> FALSE, genome |-> <<>>]
    /\ op' = "Load"
    /\ UNCHANGED <<genome, regs, inputs, outputs, stacks, fun_starts, inst_ptr,
                   scope_stack, reg_stack, call_stack, errors,
                   ub, assert_fail, log, steps, os, inst_lib, init, pc>>

MaxPrintGenome == 3

PrintPool ==
    { Instruction("Inc", 1, 0, 0), Instruction("Inc", 1, 5, 0),
      Instruction("SetReg", 2, 7, 0), Instruction("SetReg", 2, REGS, 0),
      Instruction("Scope", 0, 0, 0), Instruction("Scope", 1, 0, 0),
      Instruction("If", 1, 1, 0), Instruction("While", 0, 0, 0),
      Instruction("Countdown", 1, 2, 0) }

PushPrinted == PushInstFrom(PrintPool, MaxPrintGenome)

NextPrint == PushPrinted \/ PrintGenome \/ Load

SpecPrint == Init /\ [][NextPrint]_vars

----------------------------------------------------------------------------
\* GetInstLib, called from two threads

\* The opcodes in the order of the AddInst calls.
Registered ==
    <<"Inc", "Dec", "Not", "SetReg", "Add", "Sub", "Mult", "Div", "Mod",
      "TestEqu", "TestNEqu", "TestLess", "If", "While", "Countdown", "Break",
      "Scope", "Define", "Call", "Push", "Pop", "Input", "Output", "CopyVal",
      "ScopeReg", "Unknown">>

\* The calls that populate the library: one AddInst for each opcode, then two
\* AddArg for each register.  pc[t] is 0 while thread t has not called
\* GetInstLib, n while it is about to make the n-th of these calls, one more
\* while it is about to set init, and two more once it has returned.
LibCalls == Len(Registered) + 2 * REGS

Returned == LibCalls + 2

\* if (!init): the thread reads the flag, and returns the library at once
\* when it is set.
TestInit(t) ==
    /\ pc[t] = 0
    /\ pc' = [pc EXCEPT ![t] = IF init THEN Returned ELSE 1]
    /\ UNCHANGED <<inst_lib, init>>

\* The next AddInst or AddArg call of a thread inside the if.
AddNext(t) ==
    /\ pc[t] \in 1 .. LibCalls
    /\ inst_lib' = IF pc[t] <= Len(inst_lib)
                   THEN [inst_lib EXCEPT ![pc[t]] = @ + 1]
                   ELSE Append(inst_lib, 1)
    /\ pc' = [pc EXCEPT ![t] = @ + 1]
    /\ UNCHANGED init

\* init = true; return inst_lib;
SetInit(t) ==
    /\ pc[t] = LibCalls + 1
    /\ init' = TRUE
    /\ pc' = [pc EXCEPT ![t] = Returned]
    /\ UNCHANGED inst_lib

GetInstLib ==
    /\ \E t \in Threads : TestInit(t) \/ AddNext(t) \/ SetInit(t)
    /\ op' = "GetInstLib"
    /\ UNCHANGED <<genome, regs, inputs, outputs, stacks, fun_starts, inst_ptr,
                   scope_stack, reg_stack, call_stack, errors,
                   ub, assert_fail, log, steps, os, reloaded>>

SpecLib == Init /\ [][GetInstLib]_vars

----------------------------------------------------------------------------
\* reading the record of the last operation

LogIds(kind) == {i \in DOMAIN log : log[i].ev = kind}

\* The dispatch during which event i happened.
DispatchOf(i) ==
    log[CHOOSE j \in LogIds("dispatch") :
            j < i /\ \A k \in LogIds("dispatch") : k < i => k <= j].inst

\* The scope argument an instruction hands to UpdateScope.
DeclaredScopeArg(inst) ==
    CASE inst.id = "Scope" -> inst.args[0]
      [] inst.id = "Call" -> GenomeAt(fun_starts[inst.args[0]]).args[1]
      [] OTHER -> inst.args[1]

\* Who called ExitScope for exit event i: BypassScope, ResetIP or UpdateScope.
ExitCaller(i) ==
    IF i > 1 /\ log[i - 1].ev = "bypass" THEN "BypassScope"
    ELSE IF \E j \in LogIds("resetip") :
                j < i /\ \A k \in (j + 1) .. (i - 1) : log[k].ev = "exit"
    THEN "ResetIP"
    ELSE "UpdateScope"

FunctionFrames == {i \in DOMAIN scope_stack : scope_stack[i].type = "FUNCTION"}

\* The last instruction dispatched by the last operation.
LastDispatch == CHOOSE d \in LogIds("dispatch") : \A k \in LogIds("dispatch") : k <= d

\* The last operation was a step whose last dispatch was an If that entered
\* its scope (UpdateScope pushed the If's frame and returned true).
IfEntered ==
    /\ op = "SingleProcess"
    /\ ub = "none"
    /\ LogIds("dispatch") # {}
    /\ log[LastDispatch].inst.id = "If"
    /\ Len(log) > LastDispatch
    /\ log[LastDispatch + 1].ev = "push"

\* The positions after pos whose instruction declares a scope in 1 .. level.
Closers(pos, level) ==
    {p \in (pos + 1) .. (Len(genome) - 1) : InstScope(GenomeAt(p)) \in 1 .. level}

Min(S) == CHOOSE x \in S : \A y \in S : x <= y

\* The transition is one call of SingleProcess.
IsStep == op' = "SingleProcess" /\ steps' = steps + 1

\* The calls of ResetIP that UpdateScope made during the last operation, on a
\* function return to a position at or past the end of the genome: those that
\* follow a dispatch (SingleProcess calls ResetIP before it dispatches).
ReturnResets == {j \in LogIds("resetip") : j > 1}

\* The position a step dispatches first: inst_ptr, or 0 after a wrap.
FirstPos == IF inst_ptr >= Len(genome) THEN 0 ELSE inst_ptr

\* Opcodes that touch neither the scope stack nor the instruction pointer.
PlainOps == InstID \ {"If", "While", "Countdown", "Break", "Scope", "Define", "Call", "Unknown"}

----------------------------------------------------------------------------
\* C1: in every reachable state the scope stack is non-empty, its bottom frame
\* is (0, ROOT, 0), no other frame is ROOT or has level 0, and the levels
\* strictly increase from the bottom to the top.
C1_ScopeStackShape ==
    /\ Len(scope_stack) >= 1
    /\ scope_stack[1] = ScopeInfo(0, "ROOT", 0)
    /\ \A i \in 2 .. Len(scope_stack) :
          scope_stack[i].type # "ROOT" /\ scope_stack[i].scope # 0
    /\ \A i \in 1 .. (Len(scope_stack) - 1) :
          scope_stack[i].scope < scope_stack[i + 1].scope

\* A step that left a FUNCTION frame on top of a BASIC frame on top of ROOT.
C1_Witness ==
    /\ op = "SingleProcess"
    /\ ub = "none"
    /\ Len(scope_stack) >= 3
    /\ scope_stack[2].type = "BASIC"
    /\ Back(scope_stack).type = "FUNCTION"

\* C2: the scope stack never holds more than REGS frames, and the assertion
\* scope_stack.size() <= REGS of ExitScope never fails.
C2_DepthWithinRegs ==
    /\ Len(scope_stack) <= REGS
    /\ assert_fail # "ExitScope: scope_stack.size() <= REGS"

\* C3: every frame pushed during an operation has the level s + 1, where s is
\* the scope argument of the instruction whose dispatch pushed it.
C3_PushedLevelIsArgPlusOne ==
    ub = "none" =>
        \A i \in LogIds("push") :
            log[i].frame.scope = DeclaredScopeArg(DispatchOf(i)) + 1

\* C4: every backup's scope is at most the level of the top scope frame, and
\* the backup stack is ordered by non-decreasing scope from bottom to top.
C4_BackupsWithinScope ==
    /\ \A i \in DOMAIN reg_stack : reg_stack[i].scope <= Back(scope_stack).scope
    /\ \A i \in 1 .. (Len(reg_stack) - 1) : reg_stack[i].scope <= reg_stack[i + 1].scope

\* Backups of two different scopes are pending below an open scope.
C4_Witness ==
    /\ op = "SingleProcess"
    /\ ub = "none"
    /\ Len(reg_stack) >= 2
    /\ reg_stack[1].scope < reg_stack[2].scope
    /\ Len(scope_stack) >= 2

\* C5: between steps the call stack has as many entries as the scope stack has
\* FUNCTION frames.
C5_CallStackMatchesFunctionFrames ==
    ub = "none" => Len(call_stack) = Cardinality(FunctionFrames)

C7_ResetHardwareRestoresAll ==
    op = "ResetHardware" =>
        /\ regs = [i \in RegIds |-> Dbl(i)]
        /\ inputs = [i \in RegIds |-> Dbl(0)]
        /\ outputs = [i \in RegIds |-> Dbl(0)]
        /\ stacks = [i \in RegIds |-> <<>>]
        /\ scope_stack = <<ScopeInfo(0, "ROOT", 0)>>
        /\ call_stack = <<>>
        /\ errors = 0
        /\ inst_ptr = 0

\* C8: after a hardware reset the register-backup stack is empty.
C8_ResetDrainsBackups ==
    op \in {"ResetHardware", "Reset"} => reg_stack = <<>>

\* C9: with an empty genome a step fetches nothing and leaves inst_ptr = 0 and
\* errors = 0.
C9_EmptyGenomeStepIsNoOp ==
    (genome = <<>> /\ op = "SingleProcess") =>
        ub = "none" /\ inst_ptr = 0 /\ errors = 0

\* C10: between steps 0 <= inst_ptr <= |genome| (stated here for the steps
\* without undefined behaviour only).
C10_InstPtrWithinGenome ==
    ub = "none" => 0 <= inst_ptr /\ inst_ptr <= Len(genome)

\* C12 as stated: the Countdown scenario run for 20 steps ends with r1 = 3 and
\* r0 = 0.
C12_CountdownBodyRunsThreeTimes ==
    (genome = CountdownScenario /\ op = "SingleProcess" /\ steps = 20) =>
        regs[1] = Dbl(3) /\ regs[0] = Dbl(0)

\* C12 as amended: the Countdown scenario run for 4k steps (k >= 1, 20
\* included) ends with r1 = 1 and r0 = 2: the genome holds no instruction that
\* closes the loop, so each pass of 4 steps sets both registers again, enters
\* the body once and wraps.
C12_CountdownBodyRunsOncePerPass ==
    (genome = CountdownScenario /\ op = "SingleProcess" /\ steps > 0 /\ steps % 4 = 0) =>
        regs[1] = Dbl(1) /\ regs[0] = Dbl(2) /\ inst_ptr = 4

\* The Countdown scenario after its 20 steps.
C12_Witness ==
    /\ genome = CountdownScenario
    /\ op = "SingleProcess"
    /\ steps = 20
    /\ ub = "none"
    /\ regs[1] = Dbl(1)

\* C13 as stated: the function scenario run for 5 steps ends with r5 = 100.
C13_FunctionWritesThenCallerIncrements ==
    (genome = FunctionScenario /\ op = "SingleProcess" /\ steps = 5) =>
        regs[5] = Dbl(100)

\* C13 as amended: the function scenario run for any number of steps (5
\* included) leaves r5 = 5: every step dispatches Define 0 1 only, whose
\* bypass runs to the end of the genome, so neither the body nor Call 0 nor
\* Inc 5 is ever dispatched.
C13_DefineBypassesToEnd ==
    (genome = FunctionScenario /\ op = "SingleProcess") =>
        /\ regs[5] = Dbl(5)
        /\ inst_ptr = 4
        /\ fun_starts[0] = 0
        /\ call_stack = <<>>
        /\ \A i \in LogIds("dispatch") : log[i].inst = Instruction("Define", 0, 1, 0)

\* The function scenario after its 5 steps.
C13_Witness ==
    /\ genome = FunctionScenario
    /\ op = "SingleProcess"
    /\ steps = 5
    /\ ub = "none"
    /\ regs[5] = Dbl(5)

\* C11: a step that starts with inst_ptr >= |genome| on a non-empty genome
\* first resets inst_ptr to 0, exits every non-root scope from the top down
\* and empties the call stack, then dispatches genome[0] in the same step and
\* increments inst_ptr: what is left on the scope stack and the call stack
\* afterwards is at most what genome[0] itself pushed.
C11_WrapDispatchesFirstInstruction ==
    [][(IsStep /\ genome # <<>> /\ inst_ptr >= Len(genome) /\ ub' = "none") =>
          LET n == Len(scope_stack) - 1
          IN  /\ Len(log') >= n + 2
              /\ log'[1] = ResetIPEvent(inst_ptr)
              /\ \A k \in 2 .. (n + 1) :
                    /\ log'[k].ev = "exit"
                    /\ log'[k].frame = scope_stack[Len(scope_stack) + 2 - k]
              /\ log'[n + 2] = DispatchEvent(0, GenomeAt(0))
              /\ inst_ptr' >= 1
              /\ GenomeAt(0).id \in PlainOps =>
                    inst_ptr' = 1 /\ scope_stack' = <<ScopeInfo(0, "ROOT", 0)>>
                                  /\ call_stack' = <<>>
              /\ Len(scope_stack') <= 2
              /\ Len(call_stack') <= 1
              /\ call_stack' # <<>> => GenomeAt(0).id = "Call"]_vars

\* A wrapping step that collapsed a FUNCTION frame and the frame below it.
C11_Witness ==
    /\ op = "SingleProcess"
    /\ ub = "none"
    /\ Len(log) >= 4
    /\ log[1].ev = "resetip"
    /\ log[2].ev = "exit" /\ log[2].frame.type = "FUNCTION"
    /\ log[3].ev = "exit"
    /\ log[4].ev = "dispatch" /\ log[4].pos = 0

\* C14: after an If t s that entered its scope, if regs[t] # 0 the frame stays
\* open and inst_ptr is the position right after the If; if regs[t] = 0 the
\* frame is popped with nothing restored and inst_ptr is the position of the
\* first later instruction declaring a scope in 1 .. s+1, or |genome| (the
\* next step wraps) when there is none.  A step that does not wrap dispatches
\* genome[inst_ptr] first, and a step that only dispatches an entering If
\* changes no register.  Instances: the taken scenario gives r2 = 42 after 3
\* steps, the skipped one r2 = 2.
C14_IfTakenOrSkipped ==
    [][/\ IfEntered' =>
            LET d == LastDispatch'
                ifpos == log'[d].pos
                t == log'[d].inst.args[0]
                s == log'[d].inst.args[1]
                frame == log'[d + 1].frame
            IN  IF ~DIsZero(regs'[t])
                THEN /\ Len(log') = d + 1
                     /\ Back(scope_stack') = frame
                     /\ inst_ptr' = ifpos + 1
                ELSE /\ Len(log') = d + 3
                     /\ log'[d + 2] = BypassEvent(ifpos)
                     /\ log'[d + 3] = ExitEvent(frame, <<>>, <<>>)
                     /\ \A i \in DOMAIN scope_stack' : scope_stack'[i] # frame
                     /\ inst_ptr' = IF Closers(ifpos, s + 1) # {}
                                    THEN Min(Closers(ifpos, s + 1))
                                    ELSE Len(genome)
       /\ (IsStep /\ inst_ptr < Len(genome)) =>
            log'[1] = DispatchEvent(inst_ptr, GenomeAt(inst_ptr))
       /\ (IsStep /\ IfEntered' /\ LastDispatch' = 1) => regs' = regs
       /\ (genome' = IfTakenScenario /\ op' = "SingleProcess" /\ steps' = 3) =>
            regs'[2] = Dbl(42)
       /\ (genome' = IfSkippedScenario /\ op' = "SingleProcess" /\ steps' = 3) =>
            regs'[2] = Dbl(2)]_vars

\* An If entered with its test register at zero skipped at least one
\* instruction and stopped before a later instruction that closes its scope.
C14_Witness ==
    /\ IfEntered
    /\ DIsZero(regs[log[LastDispatch].inst.args[0]])
    /\ inst_ptr > log[LastDispatch].pos + 1
    /\ inst_ptr < Len(genome)

\* C15: a step that dispatches Call fid while fun_starts[fid] is -1, lies at
\* or beyond |genome|, or names a position that no longer holds a Define,
\* changes nothing but inst_ptr, which advances by one; such a Call pushes no
\* frame wherever in a step it is dispatched.  fun_starts[fid] is -1 after a
\* hardware reset and only a step that dispatches Define fid changes it.
C15_StaleCallIsNoOp ==
    [][/\ (IsStep /\ inst_ptr < Len(genome) /\ GenomeAt(inst_ptr).id = "Call") =>
            LET fs == fun_starts[GenomeAt(inst_ptr).args[0]]
            IN  (fs < 0 \/ fs >= Len(genome) \/ GenomeAt(fs).id # "Define") =>
                    /\ ub' = "none" /\ assert_fail' = assert_fail
                    /\ regs' = regs
                    /\ scope_stack' = scope_stack
                    /\ call_stack' = call_stack
                    /\ reg_stack' = reg_stack
                    /\ fun_starts' = fun_starts
                    /\ errors' = errors
                    /\ stacks' = stacks /\ inputs' = inputs /\ outputs' = outputs
                    /\ inst_ptr' = inst_ptr + 1
                    /\ log' = <<DispatchEvent(inst_ptr, GenomeAt(inst_ptr))>>
       /\ IsStep =>
            \A i \in DOMAIN log' :
                (log'[i].ev = "dispatch" /\ log'[i].inst.id = "Call") =>
                    LET fs == fun_starts[log'[i].inst.args[0]]
                    IN  (fs < 0 \/ fs >= Len(genome) \/ GenomeAt(fs).id # "Define") =>
                            i = Len(log')
       /\ op' \in {"ResetHardware", "Reset"} => \A f \in RegIds : fun_starts'[f] = -1
       /\ \A f \in RegIds :
            fun_starts'[f] # fun_starts[f] =>
                \/ op' \in {"ResetHardware", "Reset"}
                \/ /\ IsStep
                   /\ \E i \in DOMAIN log' :
                         /\ log'[i].ev = "dispatch"
                         /\ log'[i].inst.id = "Define"
                         /\ log'[i].inst.args[0] = f]_vars

\* A step that only dispatched a Call whose recorded position was overwritten
\* by SetInst and no longer holds a Define.
C15_Witness ==
    /\ op = "SingleProcess"
    /\ ub = "none"
    /\ Len(log) = 1
    /\ log[1].ev = "dispatch"
    /\ log[1].inst.id = "Call"
    /\ LET fs == fun_starts[log[1].inst.args[0]]
       IN  fs >= 0 /\ fs < Len(genome) /\ GenomeAt(fs).id # "Define"

\* C16: an instruction whose register argument a is >= REGS behaves as if the
\* argument were a mod REGS and performs no out-of-range access; for Inc a:
\* regs[a mod REGS] is incremented and nothing else changes.
C16_IndexTakenModuloRegs ==
    [][(IsStep /\ genome # <<>> /\ GenomeAt(FirstPos).id = "Inc"
               /\ GenomeAt(FirstPos).args[0] >= REGS) =>
          /\ ub' = "none"
          /\ assert_fail' = "none"
          /\ regs' = [regs EXCEPT ![GenomeAt(FirstPos).args[0] % REGS] = DAdd(@, Dbl(1))]]_vars

\* C18: over steps errors never decreases, a step adds at most 1 to it, and
\* a step that adds 1 dispatched a Div or Mod whose divisor register is 0.
C18_ErrorsCountZeroDivisors ==
    [][(IsStep /\ ub' = "none") =>
          /\ errors' >= errors
          /\ errors' <= errors + 1
          /\ errors' # errors =>
                /\ log'[LastDispatch'].inst.id \in {"Div", "Mod"}
                /\ regs'[log'[LastDispatch'].inst.args[1]] = Dbl(0)
          /\ (log'[LastDispatch'].inst.id \notin {"Div", "Mod"}
                \/ regs'[log'[LastDispatch'].inst.args[1]] # Dbl(0)) => errors' = errors]_vars

\* A second division by zero was counted, this one by a Mod.
C18_Witness ==
    /\ op = "SingleProcess"
    /\ ub = "none"
    /\ errors = 2
    /\ log[LastDispatch].inst.id = "Mod"
    /\ regs[log[LastDispatch].inst.args[1]] = Dbl(0)

\* C19: a step that dispatches Div a b c or Mod a b c while regs[b] = 0 adds 1
\* to errors and leaves every register as it was.  The division-by-zero
\* scenario run for 2 steps ends with errors = 1 and r2 = 2.
C19_ZeroDivisorLeavesRegisters ==
    [][/\ (IsStep /\ genome # <<>> /\ ub' = "none"
                  /\ GenomeAt(FirstPos).id \in {"Div", "Mod"}
                  /\ regs[GenomeAt(FirstPos).args[1]] = Dbl(0)) =>
            errors' = errors + 1 /\ regs' = regs
       /\ (genome' = DivByZeroScenario /\ op' = "SingleProcess" /\ steps' = 2) =>
            errors' = 1 /\ regs'[2] = Dbl(2)]_vars

\* A Mod by zero was counted, its destination holding a value other than the
\* one it was reset to.
C19_Witness ==
    /\ op = "SingleProcess"
    /\ ub = "none"
    /\ errors >= 1
    /\ log[LastDispatch].inst.id = "Mod"
    /\ regs[log[LastDispatch].inst.args[1]] = Dbl(0)
    /\ regs[log[LastDispatch].inst.args[2]] # Dbl(log[LastDispatch].inst.args[2])

\* C20: every auxiliary stack holds at most STACK_CAP values, and a step that
\* dispatches Push r s while stacks[s] holds STACK_CAP values changes nothing
\* but inst_ptr.
C20_PushToFullStackDropped ==
    [][/\ \A s \in RegIds : Len(stacks[s]) <= STACK_CAP /\ Len(stacks'[s]) <= STACK_CAP
       /\ (IsStep /\ genome # <<>> /\ GenomeAt(FirstPos).id = "Push"
                  /\ Len(stacks[GenomeAt(FirstPos).args[1]]) >= STACK_CAP) =>
            /\ stacks' = stacks
            /\ regs' = regs
            /\ inputs' = inputs /\ outputs' = outputs
            /\ fun_starts' = fun_starts
            /\ scope_stack' = scope_stack
            /\ reg_stack' = reg_stack
            /\ call_stack' = call_stack
            /\ errors' = errors
            /\ ub' = "none" /\ assert_fail' = assert_fail
            /\ inst_ptr' = FirstPos + 1]_vars

\* A Push was dispatched on a stack that already held STACK_CAP values.
C20_Witness ==
    /\ op = "SingleProcess"
    /\ ub = "none"
    /\ steps = STACK_CAP + 1
    /\ genome = <<Instruction("Push", 2, 0, 0)>>
    /\ Len(stacks[0]) = STACK_CAP

\* C17 as stated: when a function return finds its return position at or past
\* |genome|, inst_ptr is set to 0 there without exiting the function scope and
\* without popping the call stack: after the step the return position and the
\* FUNCTION frame are still in place.
C17_ReturnPastEndKeepsFunction ==
    (op = "SingleProcess" /\ ub = "none") =>
        \A j \in ReturnResets :
            /\ (j < Len(log) => log[j + 1].ev # "exit")
            /\ call_stack # <<>>
            /\ log[j].pos \in {call_stack[i] : i \in DOMAIN call_stack}
            /\ FunctionFrames # {}

\* C17 as amended: when a function return finds its return position at or
\* past |genome|, UpdateScope calls ResetIP there: inst_ptr becomes 0, every
\* frame above the root is exited from the top down, the FUNCTION frame first,
\* the call stack is emptied, and genome[0] is dispatched in the same step, so
\* that afterwards at most the frame and the return position pushed by
\* genome[0] are present.
C17_ReturnPastEndResets ==
    [][(IsStep /\ ub' = "none") =>
          \A j \in ReturnResets' :
              LET pushed == Cardinality({k \in 1 .. (j - 1) : log'[k].ev = "push"})
                  exited == Cardinality({k \in 1 .. (j - 1) : log'[k].ev = "exit"})
                  n == Len(scope_stack) + pushed - exited - 1
              IN  /\ log'[j].pos >= Len(genome)
                  /\ n >= 1
                  /\ Len(log') >= j + n + 1
                  /\ \A k \in (j + 1) .. (j + n) : log'[k].ev = "exit"
                  /\ log'[j + 1].frame.type = "FUNCTION"
                  /\ log'[j + n].frame = scope_stack[2]
                  /\ log'[j + n + 1] = DispatchEvent(0, GenomeAt(0))
                  /\ Len(scope_stack') <= 2
                  /\ Len(call_stack') <= 1
                  /\ call_stack' # <<>> => GenomeAt(0).id = "Call"
                  /\ inst_ptr' >= 1]_vars

\* A function called from the last position of the genome returned: its
\* return position was |genome| and ResetIP ran in the middle of the step.
C17_Witness ==
    /\ op = "SingleProcess"
    /\ ub = "none"
    /\ ReturnResets # {}
    /\ \E j \in ReturnResets : log[j].pos = Len(genome) /\ log[j + 1].frame.type = "FUNCTION"

\* C21: a step that dispatches Pop s r while stacks[s] is empty sets regs[r]
\* to 0, leaves stacks[s] empty and errors as it was; while stacks[s] is not
\* empty it sets regs[r] to the value pushed last among those still on the
\* stack and removes that value (a Push onto a stack that is not full puts the
\* register's value on top).
C21_PopTakesLastPushedOrZero ==
    [][(IsStep /\ genome # <<>> /\ ub' = "none") =>
          LET inst == GenomeAt(FirstPos)
              a == inst.args
          IN  /\ inst.id = "Pop" =>
                   /\ errors' = errors
                   /\ IF stacks[a[0]] = <<>>
                      THEN /\ regs' = [regs EXCEPT ![a[1]] = Dbl(0)]
                           /\ stacks' = stacks
                      ELSE /\ regs' = [regs EXCEPT ![a[1]] = stacks[a[0]][Len(stacks[a[0]])]]
                           /\ stacks' = [stacks EXCEPT ![a[0]] =
                                            SubSeq(@, 1, Len(@) - 1)]
              /\ (inst.id = "Push" /\ Len(stacks[a[1]]) < STACK_CAP) =>
                   /\ stacks' = [stacks EXCEPT ![a[1]] = @ \o <<regs[a[0]]>>]
                   /\ regs' = regs]_vars

\* A Pop took the value pushed last and left an older, different one behind.
C21_Witness ==
    /\ op = "SingleProcess"
    /\ ub = "none"
    /\ log[LastDispatch].inst = Instruction("Pop", 0, 3, 0)
    /\ stacks[0] # <<>>
    /\ regs[3] # stacks[0][1]

\* What PrintGenome's cur_scope is when its loop reaches instruction k (from
\* 1): the scope of the last instruction before k that declares one.
PrinterScope(k) ==
    LET S == {j \in 1 .. (k - 1) : InstScope(genome[j]) # 0}
    IN  IF S = {} THEN 0
        ELSE InstScope(genome[CHOOSE j \in S : \A i \in S : i <= j])

\* The instruction declares the very scope the printer is in.
SameScope(k) == InstScope(genome[k]) # 0 /\ InstScope(genome[k]) = PrinterScope(k)

\* The instruction declares a scope that is not deeper than the printer's.
ReturnsToScope(k) == InstScope(genome[k]) # 0 /\ InstScope(genome[k]) <= PrinterScope(k)

\* C22 as stated: the genome Load reads from the text PrintGenome wrote is
\* the printed genome, every opcode and all three arguments of every position.
C22_ReloadedEqualsPrinted ==
    op = "Load" => reloaded.ok /\ reloaded.genome = genome

\* C22, amended: when every argument PrintGenome writes (the first n of an
\* instruction whose opcode has arity n) is less than REGS, Load of the
\* printed text succeeds and yields a genome of the same length whose every
\* position has the same opcode and the same first n arguments; the arguments
\* PrintGenome does not write come back as 0.
C22_ReloadedKeepsPrintedArguments ==
    (/\ op = "Load"
     /\ \A i \in DOMAIN genome : \A k \in ArgIds :
            k < NumArgs[genome[i].id] => genome[i].args[k] < REGS)
    => /\ reloaded.ok
       /\ Len(reloaded.genome) = Len(genome)
       /\ \A i \in DOMAIN genome :
            /\ reloaded.genome[i].id = genome[i].id
            /\ \A k \in ArgIds :
                 reloaded.genome[i].args[k] =
                     IF k < NumArgs[genome[i].id] THEN genome[i].args[k] ELSE 0

\* A genome of three instructions was printed with a line of dashes and read
\* back with its printed arguments, and an argument that is not printed lost.
C22_Witness ==
    /\ op = "Load"
    /\ reloaded.ok
    /\ Len(genome) = 3
    /\ Len(os) = 4
    /\ \E i \in DOMAIN genome :
         /\ genome[i] = Instruction("Inc", 1, 5, 0)
         /\ reloaded.genome[i] = Instruction("Inc", 1, 0, 0)

\* C24 as stated: a line of dashes at depth cur comes before every
\* instruction that declares a scope s with 0 < s <= cur, whose own line is
\* then printed at depth s-1; an instruction declaring s > cur is printed at
\* depth cur with a trailing arrow; every other line is printed at depth cur;
\* and a depth is two spaces per level.
C24_DashesOnEveryReturnTwoSpaces ==
    op = "PrintGenome" =>
        LET at(k) == k + Cardinality({j \in 1 .. k : ReturnsToScope(j)})
        IN  /\ Len(os) = Len(genome) + Cardinality({j \in DOMAIN genome : ReturnsToScope(j)})
            /\ \A k \in DOMAIN genome :
                 LET s   == InstScope(genome[k])
                     cur == PrinterScope(k)
                 IN  /\ os[at(k)].words[1] = genome[k].id
                     /\ os[at(k)].indent = 2 * (IF ReturnsToScope(k) THEN s - 1 ELSE cur)
                     /\ s > cur => Back(os[at(k)].words) = "-->"
                     /\ ReturnsToScope(k) => os[at(k) - 1] = Line(2 * cur, <<"----">>)

\* C24, amended: a line of dashes at depth cur comes before exactly the
\* instructions that declare the scope s = cur > 0, whose own line is printed
\* at depth cur with no arrow and leaves cur as it is; an instruction
\* declaring 0 < s < cur gets no line of dashes, is printed at depth s-1 with
\* a trailing arrow and sets cur = s; an instruction declaring s > cur is
\* printed at depth cur with a trailing arrow and sets cur = s; every other
\* line is printed at depth cur; and a depth is one space per level.
C24_DashesOnSameScopeOneSpace ==
    op = "PrintGenome" =>
        LET at(k) == k + Cardinality({j \in 1 .. k : SameScope(j)})
        IN  /\ Len(os) = Len(genome) + Cardinality({j \in DOMAIN genome : SameScope(j)})
            /\ \A k \in DOMAIN genome :
                 LET s   == InstScope(genome[k])
                     cur == PrinterScope(k)
                 IN  /\ os[at(k)].words[1] = genome[k].id
                     /\ os[at(k)].indent = (IF s # 0 /\ s < cur THEN s - 1 ELSE cur)
                     /\ (Back(os[at(k)].words) = "-->") <=> (s # 0 /\ s # cur)
                     /\ SameScope(k) => os[at(k) - 1] = Line(cur, <<"----">>)

\* A genome was printed in which one instruction returns to an outer scope
\* (no dashes, an arrow, depth 0) and the next declares the scope it is in
\* (dashes at depth 1, no arrow).
C24_Witness ==
    /\ op = "PrintGenome"
    /\ genome = <<Instruction("Scope", 1, 0, 0), Instruction("Scope", 0, 0, 0),
                  Instruction("While", 0, 0, 0)>>
    /\ os = <<Line(0, <<"Scope", "1", "-->">>), Line(0, <<"Scope", "0", "-->">>),
              Line(1, <<"----">>), Line(1, <<"While", "0", "0">>)>>

\* C23: when two threads make their first call to GetInstLib concurrently,
\* every opcode and every argument name is registered once and no more, and a
\* thread to which GetInstLib has returned holds a library in which each of
\* them is registered, that is, one that is not being populated any more.
C23_LibraryInitialisedOnce ==
    /\ \A e \in DOMAIN inst_lib : inst_lib[e] <= 1
    /\ \A t \in Threads :
         pc[t] = Returned =>
            /\ Len(inst_lib) = LibCalls
            /\ \A e \in DOMAIN inst_lib : inst_lib[e] = 1
            /\ \A u \in Threads : pc[u] \notin 1 .. LibCalls

\* The value register r holds once the exit recorded as event e has restored
\* its backups.
AfterExit(e, r) == IF r \in DOMAIN e.after THEN e.after[r] ELSE regs[r]

\* The step dispatches an instruction that declares a scope no deeper than
\* the current one while the frame on top of the scope stack has type t.
ClosesFrame(t) ==
    /\ IsStep
    /\ ub' = "none"
    /\ inst_ptr < Len(genome)
    /\ Back(scope_stack).type = t
    /\ InstScope(GenomeAt(inst_ptr)) \in 1 .. Back(scope_stack).scope

\* C25: when an instruction that declares a scope no deeper than the current
\* one is dispatched while the top frame is a LOOP frame with start position
\* p, the same step sets inst_ptr to p, pops the LOOP frame (restoring the
\* backups made in it), dispatches genome[p] again, and the triggering
\* instruction does nothing else; if the test register of genome[p] is then
\* not zero, the step ends in the loop and the next step dispatches
\* genome[p+1].
C25_LoopEndRedispatchesHeader ==
    [][ClosesFrame("LOOP") =>
          LET top == Back(scope_stack)
              p   == top.start_pos
              n   == Len(log'[2].restored)
          IN  /\ Len(log') >= 3
              /\ log'[1] = DispatchEvent(inst_ptr, GenomeAt(inst_ptr))
              /\ log'[2].ev = "exit"
              /\ log'[2].frame = top
              /\ \A i \in 1 .. n :
                   /\ log'[2].restored[i] = reg_stack[Len(reg_stack) + 1 - i]
                   /\ log'[2].restored[i].scope = top.scope
              /\ n < Len(reg_stack) => reg_stack[Len(reg_stack) - n].scope # top.scope
              /\ log'[3] = DispatchEvent(p, GenomeAt(p))
              /\ fun_starts' = fun_starts
              /\ GenomeAt(p).id \in {"While", "Countdown"}
              /\ ~DIsZero(AfterExit(log'[2], GenomeAt(p).args[0])) =>
                   /\ inst_ptr' = p + 1
                   /\ p + 1 < Len(genome)
                   /\ Back(scope_stack').type = "LOOP"
                   /\ Back(scope_stack').start_pos = p]_vars

\* C26: a Countdown t s at position p whose body (the instructions up to the
\* first later instruction, at q, that declares a scope <= s+1) never writes
\* regs[t] runs its body once for every unit of regs[t]: a step that enters
\* the loop takes one from regs[t] and dispatches the first body instruction
\* next, a step in which the loop's frame leaves the scope stack ends with
\* regs[t] = 0 and continues at the closing instruction q, and q enters its
\* own scope only once the loop has ended.
C26_CountdownRunsBodyNTimes ==
    [][(IsStep /\ ub' = "none") =>
          \A p \in 0 .. (Len(genome) - 1) :
              LET t == GenomeAt(p).args[0]
                  s == GenomeAt(p).args[1]
                  q == Min(Closers(p, s + 1))
                  writes(inst) ==
                      CASE inst.id \in {"Inc", "Dec", "Not", "SetReg", "Countdown", "ScopeReg"} ->
                               inst.args[0] = t
                        [] inst.id \in {"Pop", "Input", "CopyVal"} -> inst.args[1] = t
                        [] inst.id \in {"Add", "Sub", "Mult", "Div", "Mod",
                                        "TestEqu", "TestNEqu", "TestLess"} -> inst.args[2] = t
                        [] OTHER -> FALSE
                  inloop(stack) ==
                      \E i \in DOMAIN stack : stack[i].type = "LOOP" /\ stack[i].start_pos = p
              IN  (/\ GenomeAt(p).id = "Countdown"
                   /\ Closers(p, s + 1) # {}
                   /\ \A b \in (p + 1) .. (q - 1) : ~writes(GenomeAt(b)))
                  => /\ (~inloop(scope_stack) /\ inloop(scope_stack')) =>
                           /\ regs'[t] = DSub(regs[t], Dbl(1))
                           /\ inst_ptr' = p + 1
                     /\ (inloop(scope_stack) /\ ~inloop(scope_stack')) =>
                           /\ regs'[t] = Dbl(0)
                           /\ inst_ptr' = q
                     /\ (\E i \in DOMAIN log' :
                             log'[i].ev = "push" /\ log'[i].frame.start_pos = q) =>
                           ~inloop(scope_stack')]_vars

\* C27: when an instruction that declares a scope no deeper than the current
\* one is dispatched while the top frame is a FUNCTION frame and the return
\* position p on top of the call stack is below |genome|, the same step
\* removes that call-stack entry, pops the FUNCTION frame (restoring the
\* backups made in it) and dispatches genome[p], where p is one past the
\* position of the Call that entered the function.
C27_FunctionEndReturnsAfterCall ==
    [][(ClosesFrame("FUNCTION") /\ call_stack # <<>> /\ Back(call_stack) < Len(genome)) =>
          LET top == Back(scope_stack)
              p   == Back(call_stack)
              n   == Len(log'[2].restored)
          IN  /\ Len(log') >= 3
              /\ log'[1] = DispatchEvent(inst_ptr, GenomeAt(inst_ptr))
              /\ log'[2].ev = "exit"
              /\ log'[2].frame = top
              /\ \A i \in 1 .. n :
                   /\ log'[2].restored[i] = reg_stack[Len(reg_stack) + 1 - i]
                   /\ log'[2].restored[i].scope = top.scope
              /\ n < Len(reg_stack) => reg_stack[Len(reg_stack) - n].scope # top.scope
              /\ log'[3] = DispatchEvent(p, GenomeAt(p))
              /\ GenomeAt(top.start_pos).id = "Call"
              /\ p = top.start_pos + 1
              /\ \/ call_stack' = PopBack(call_stack)
                 \/ Cardinality({i \in DOMAIN log' : i > 3 /\ log'[i].ev = "dispatch"}) > 0
                 \/ GenomeAt(p).id = "Call"]_vars

\* C28: after a step that dispatches a successful Call fid (fun_starts[fid] =
\* d, genome[d] is a Define and the function's scope is entered) the next
\* instruction dispatched is genome[d+1], the first instruction of the
\* function body, and the new top of the call stack is the position of the
\* Call plus one.
C28_CallLandsOnFirstBodyInstruction ==
    [][(/\ IsStep
        /\ ub' = "none"
        /\ log'[LastDispatch'].inst.id = "Call"
        /\ Len(log') = LastDispatch' + 1
        /\ log'[Len(log')].ev = "push")
       => LET call == log'[LastDispatch']
              d    == fun_starts[call.inst.args[0]]
          IN  /\ GenomeAt(d).id = "Define"
              /\ log'[Len(log')].frame.type = "FUNCTION"
              /\ call_stack' = Append(call_stack, call.pos + 1)
              /\ inst_ptr' = d + 1]_vars

\* C29: a Define fid s that enters its scope records its own position in
\* fun_starts[fid], leaves the scope stack as it was before it pushed its
\* frame (the frame is popped again in the same step), and no instruction
\* between the Define and the next instruction declaring a scope <= s+1 (or
\* the end of the genome) is dispatched in that step: the step ends with
\* inst_ptr on that instruction (or on |genome|).
C29_DefineRecordsAndSkipsBody ==
    [][(/\ IsStep
        /\ ub' = "none"
        /\ log'[LastDispatch'].inst.id = "Define"
        /\ \E k \in DOMAIN log' : k > LastDispatch' /\ log'[k].ev = "push")
       => LET def   == log'[LastDispatch']
              k     == CHOOSE i \in DOMAIN log' : i > LastDispatch' /\ log'[i].ev = "push"
              left  == Cardinality({i \in 1 .. k : log'[i].ev = "exit"})
              level == def.inst.args[1] + 1
          IN  /\ fun_starts' = [fun_starts EXCEPT ![def.inst.args[0]] = def.pos]
              /\ log'[k].frame.start_pos = def.pos
              /\ Len(log') = k + 2
              /\ log'[k + 2].ev = "exit"
              /\ log'[k + 2].frame = log'[k].frame
              /\ scope_stack' = SubSeq(scope_stack, 1, Len(scope_stack) - left)
              /\ inst_ptr' = IF Closers(def.pos, level) = {} THEN Len(genome)
                             ELSE Min(Closers(def.pos, level))]_vars

\* A Define entered its scope, recorded its position and skipped a body
\* instruction, stopping on the instruction that closes the definition.
C29_Witness ==
    /\ op = "SingleProcess"
    /\ ub = "none"
    /\ log[LastDispatch].inst.id = "Define"
    /\ log[LastDispatch + 1].ev = "push"
    /\ fun_starts[0] = log[LastDispatch].pos
    /\ inst_ptr = log[LastDispatch].pos + 2
    /\ inst_ptr < Len(genome)

C31_BreakEndsLoop ==
    [][(/\ op = "SingleProcess"
        /\ ub = "none"
        /\ LogIds("dispatch") # {}
        /\ log[LastDispatch].inst.id = "Break"
        /\ inst_ptr < Len(genome)
        /\ IsStep
        /\ ub' = "none")
       => \A k \in DOMAIN scope_stack :
            (/\ scope_stack[k].type = "LOOP"
             /\ scope_stack[k].scope = log[LastDispatch].inst.args[0] + 1)
            => ~ \E i \in 1 .. (Len(log') - 1) :
                   /\ log'[i].ev = "exit"
                   /\ log'[i].frame = scope_stack[k]
                   /\ log'[i + 1].ev = "dispatch"
                   /\ log'[i + 1].pos = scope_stack[k].start_pos]_vars

\* The arguments Mod and Div are compared on: the registers the arithmetic
\* genomes write, one they never write, and one past the end of regs.
ModArgs == {0, 1, 2, 3, REGS - 1, REGS}

\* The hardware after an instruction was dispatched, without the record of
\* which instruction it was.
Outcome(m) == [m EXCEPT !.log = <<>>]

C33_StepChainBounded ==
    [][(IsStep /\ genome # <<>> /\ ub' = "none") =>
          LET dispatched == Cardinality({i \in DOMAIN log' : log'[i].ev = "dispatch"})
              exited     == Cardinality({i \in DOMAIN log' : log'[i].ev = "exit"})
          IN  /\ dispatched >= 1
              /\ dispatched <= (IF inst_ptr >= Len(genome) THEN 1 ELSE Len(scope_stack))
              /\ exited <= Len(scope_stack)]_vars

\* A step dispatched three instructions: the one at inst_ptr and two more by
\* loop-back or function return.
C33_Witness ==
    /\ op = "SingleProcess"
    /\ ub = "none"
    /\ Cardinality(LogIds("dispatch")) >= 3

\* C34: ExitScope is never called while the scope stack holds the root frame
\* alone: its assertion scope_stack.size() > 1 holds at every call, whether
\* UpdateScope, BypassScope or ResetIP calls it, and the frame it pops is
\* never the root frame.
C34_ExitScopeNeverAtRoot ==
    /\ assert_fail # "ExitScope: scope_stack.size() > 1"
    /\ ub # "ExitScope: root frame popped"
    /\ \A i \in LogIds("exit") : log[i].frame.type # "ROOT" /\ log[i].frame.scope >= 1

\* A step called ExitScope from ResetIP (the wrap, collapsing a loop) and then
\* from BypassScope, and the last call left the root frame alone on the stack.
C34_Witness ==
    /\ op = "SingleProcess"
    /\ ub = "none"
    /\ Len(scope_stack) = 1
    /\ \E i, j \in LogIds("exit") :
         /\ ExitCaller(i) = "ResetIP"
         /\ ExitCaller(j) = "BypassScope"
         /\ log[i].frame.type = "LOOP"

\* C35: a step that starts with inst_ptr < |genome| and dispatches Inc, Dec,
\* Not, SetReg, Add, Sub, Mult, Div, Mod, TestEqu, TestNEqu, TestLess, Push,
\* Pop, Input, Output or CopyVal leaves the scope stack, the call stack, the
\* stack of register backups, fun_starts and the genome as they were, and
\* adds exactly one to inst_ptr.  The dispatch of each of these opcodes, in
\* whatever state the step starts from, leaves the same fields and inst_ptr
\* as they were.
C35_PlainStepOnlyAdvances ==
    [][(IsStep /\ ub' = "none" /\ inst_ptr < Len(genome)) =>
          /\ GenomeAt(inst_ptr).id \in PlainOps \ {"ScopeReg"} =>
                /\ scope_stack' = scope_stack
                /\ call_stack' = call_stack
                /\ reg_stack' = reg_stack
                /\ fun_starts' = fun_starts
                /\ genome' = genome
                /\ inst_ptr' = inst_ptr + 1
          /\ \A id \in PlainOps \ {"ScopeReg"} :
                LET m == ProcessInst(HW, Instruction(id, 1, 2, 0))
                IN  /\ m.ub = "none"
                    /\ m.scope_stack = scope_stack
                    /\ m.call_stack = call_stack
                    /\ m.reg_stack = reg_stack
                    /\ m.fun_starts = fun_starts
                    /\ m.inst_ptr = inst_ptr]_vars

\* A step dispatched Inc, and nothing else, inside a function whose return
\* position is on the call stack.
C35_Witness ==
    /\ op = "SingleProcess"
    /\ ub = "none"
    /\ Len(log) = 1
    /\ log[1].inst.id = "Inc"
    /\ Len(scope_stack) >= 2
    /\ call_stack # <<>>

\* C36: the wrap (the ResetIP of a step that starts with inst_ptr >= |genome|)
\* leaves errors, inputs, outputs, every auxiliary stack, fun_starts and the
\* genome as they were, and changes a register only by restoring a value that
\* ScopeReg saved in one of the non-root scopes the wrap collapses: a register
\* with such a backup gets the oldest one, every other register keeps its
\* value.  The step then dispatches genome[0] on that state, so a function
\* defined in the pass that ended can be called in the pass that starts.
C36_WrapKeepsAllButScopes ==
    [][(IsStep /\ genome # <<>> /\ inst_ptr >= Len(genome) /\ ub' = "none") =>
          LET w == ExitAllScopes(HW)
              saved(i) == {k \in DOMAIN reg_stack :
                             reg_stack[k].reg_id = i /\ reg_stack[k].scope >= 1}
              after == Advance(ProcessInst([w EXCEPT !.inst_ptr = 0, !.call_stack = <<>>],
                                           GenomeAt(0)))
          IN  /\ w.errors = errors
              /\ w.inputs = inputs
              /\ w.outputs = outputs
              /\ w.stacks = stacks
              /\ w.fun_starts = fun_starts
              /\ genome' = genome
              /\ \A i \in RegIds :
                    w.regs[i] = IF saved(i) = {} THEN regs[i]
                                ELSE reg_stack[Min(saved(i))].value
              /\ \A i \in RegIds : \A k \in saved(i) : \E f \in DOMAIN scope_stack :
                    f > 1 /\ scope_stack[f].scope = reg_stack[k].scope
              /\ (/\ GenomeAt(0).id = "Call"
                  /\ fun_starts[GenomeAt(0).args[0]] \in 0 .. (Len(genome) - 1)
                  /\ GenomeAt(fun_starts[GenomeAt(0).args[0]]).id = "Define")
                 => /\ Back(scope_stack').type = "FUNCTION"
                    /\ call_stack' = <<1>>
              /\ <<regs', inputs', outputs', stacks', fun_starts', errors'>>
                   = <<after.regs, after.inputs, after.outputs, after.stacks,
                       after.fun_starts, after.errors>>
              /\ <<inst_ptr', scope_stack', reg_stack', call_stack'>>
                   = <<after.inst_ptr, after.scope_stack, after.reg_stack,
                       after.call_stack>>]_vars

\* A wrap restored a register from a backup saved in a scope it collapsed,
\* with a function defined in the pass that ended still on record.
C36_Witness ==
    /\ op = "SingleProcess"
    /\ ub = "none"
    /\ log # <<>>
    /\ log[1].ev = "resetip"
    /\ \E i \in LogIds("exit") :
         /\ ExitCaller(i) = "ResetIP"
         /\ \E r \in DOMAIN log[i].after : log[i].after[r] # Dbl(r)
    /\ \E f \in RegIds : fun_starts[f] >= 0 /\ fun_starts[f] < Len(genome)

\* C37: in every state reached through Reset, ResetHardware, PushInst,
\* SetInst and SingleProcess, inputs[i] = 0 for every i in [0, REGS): no
\* operation writes the input buffer but the reset that zeroes it, so a step
\* that dispatches Input i r leaves regs[r] = 0.
C37_InputsAlwaysZero ==
    /\ \A i \in RegIds : inputs[i] = Dbl(0)
    /\ (op = "SingleProcess" /\ log[LastDispatch].inst.id = "Input")
        => regs[log[LastDispatch].inst.args[1]] = Dbl(0)

\* A step dispatched Input 1 2 after the register it writes had been
\* incremented and its value written to the output buffer.
C37_Witness ==
    /\ op = "SingleProcess"
    /\ ub = "none"
    /\ log[LastDispatch].inst = Instruction("Input", 1, 2, 0)
    /\ regs[2] = Dbl(0)
    /\ outputs[1] = Dbl(3)

\* C38: in every reachable state the call stack holds at least as many
\* entries as there are FUNCTION frames on the scope stack, and UpdateScope
\* never takes its function-return branch with an empty call stack: the
\* call_stack.back() it reads there is always defined.
C38_CallStackCoversFunctionFrames ==
    /\ Len(call_stack) >= Cardinality(FunctionFrames)
    /\ ub # "UpdateScope: call_stack.back() on an empty stack"

\* A step took the function-return branch (UpdateScope left a FUNCTION frame)
\* and dispatched the instruction at the return position.
C38_Witness ==
    /\ op = "SingleProcess"
    /\ ub = "none"
    /\ \E i \in LogIds("exit") :
         /\ log[i].frame.type = "FUNCTION"
         /\ ExitCaller(i) = "UpdateScope"
         /\ i < Len(log)
         /\ log[i + 1].ev = "dispatch"
         /\ log[i + 1].pos >= 1

====
